---- MODULE Spec2Model ----
(***************************************************************************)
(* Pinpoint-311 backend.                                                   *)
(*                                                                         *)
(* Audit hash chain:                                                       *)
(*   backend/app/services/audit_service.py  (AuditService)                 *)
(* The audit_logs table is a sequence of rows ordered by id; log_event     *)
(* appends a row chained to the last row's entry_hash, verify_integrity    *)
(* walks the rows and recomputes the hashes.                               *)
(*                                                                         *)
(* Staff API and Open311 webhooks:                                         *)
(*   apps/backend/app/api/staff.py, services/open311.py, workers/tasks.py  *)
(* Each handler runs in its own database session: rows added to a session  *)
(* become visible to the others at its commit.                             *)
(*                                                                         *)
(* Record retention:                                                       *)
(*   backend/app/services/retention_service.py                             *)
(*                                                                         *)
(* Login flow (OAuth state tokens):                                        *)
(*   backend/app/api/auth.py                                               *)
(*                                                                         *)
(* Python values: None is NULL (the empty tuple), an optional scalar v is  *)
(* Some(v), a dict is the set of its <<key, value>> pairs.                 *)
(***************************************************************************)
EXTENDS Integers, Sequences, FiniteSets, TLC

VARIABLES
    log,        \* audit_logs rows, ascending id (committed rows only)
    nextId,     \* the id sequence of audit_logs (autoincrement primary key)
    clock,      \* wall clock, read by datetime.utcnow() and by the row default
    pc,         \* per worker: position inside log_event
    call,       \* per worker: locals of the log_event call in progress
    vpc,        \* position inside verify_integrity
    vstart,     \* start_id of the verify_integrity call
    vlogs,      \* `logs`: the rows verify_integrity read in its one query
    vresult,    \* return value of the last verify_integrity call
    hashedTs,   \* ghost: id -> the timestamp string log_event hashed
    tamper,     \* ghost: the direct storage write made behind the service
    raised,     \* workers whose last log_event call ended in an exception
    readAt      \* ghost: id -> how many rows the call saw when it read the last hash

\* The audit service's variables other than the wall clock.
auditRest == <<log, nextId, pc, call, vpc, vstart, vlogs, vresult,
               hashedTs, readAt, tamper, raised>>

auditVars == <<clock, auditRest>>

VARIABLES
    settings,       \* staff API: the Open311 settings, fixed at import
    requests,       \* staff API: requests table, id -> committed row
    history,        \* request_status_history rows, ascending id
    auditLogs,      \* the staff API's audit_logs rows, ascending id
    deliveries,     \* webhook_deliveries rows, ascending id
    notes,          \* request_notes rows
    attachments,    \* request_attachments rows
    queue,          \* delivery ids handed to deliver_webhook_task.delay
    notifications,  \* messages sent to the request's subscribers
    sess,           \* per staff handler: its AsyncSession and locals
    resp            \* how the staff API's last finished call ended

staffVars == <<settings, requests, history, auditLogs, deliveries, notes,
               attachments, queue, notifications, sess, resp>>

VARIABLES
    records,    \* retention: service request rows, id -> row (deleted: absent)
    arch,       \* retention: the archive_record call in progress
    rcall       \* retention: the last finished call, its arguments and result

retentionVars == <<records, arch, rcall>>

VARIABLES
    _pending_states,    \* auth: the module-level dict state -> redirect_uri
    nextState,          \* auth: how many state tokens secrets has produced
    cb,                 \* auth: per callback handler, its position and locals
    alog,               \* ghost: the auth0_callback calls and how line 71 went
    jwts,               \* the access tokens auth0_callback has handed out
    aresp               \* auth: the response of the last finished call

authVars == <<_pending_states, nextState, cb, alog, jwts, aresp>>

\* The variables of the other services, which AuditService never touches.
otherVars == <<staffVars, retentionVars, authVars>>

vars == <<auditVars, otherVars>>

----------------------------------------------------------------------------
(* Bounds *)

MaxEntries == 3
MaxClock == 1
NumWorkers == 2
MaxChanges == 2     \* status changes started per run
MaxOtherOps == 1    \* priority/assignment/note/attachment calls per run
NumRecords == 1     \* service requests seen by the retention service
MaxAttempts == 2    \* runs of the delivery task on one webhook delivery
MaxLogins == 2      \* state tokens stored by initiate_login
MaxCallbacks == 3   \* auth0_callback calls

Workers == 1..NumWorkers

----------------------------------------------------------------------------
(* Values *)

NULL == <<>>
Some(v) == <<v>>

EmptyDict == {}

\* The callers' events: log_login_failed (details left None) and
\* log_login_success without MFA (details is the empty dict).
LoginFailed ==
    [event_type |-> "login_failed", success |-> FALSE,
     username |-> Some("alice"), user_id |-> NULL,
     ip_address |-> Some("10.0.0.1"), user_agent |-> Some("curl"),
     session_id |-> NULL, failure_reason |-> Some("bad password"),
     details |-> NULL]

LoginSuccess ==
    [event_type |-> "login_success", success |-> TRUE,
     username |-> Some("alice"), user_id |-> Some(1),
     ip_address |-> Some("10.0.0.1"), user_agent |-> Some("curl"),
     session_id |-> Some("s1"), failure_reason |-> NULL,
     details |-> Some(EmptyDict)]

Events == {LoginFailed, LoginSuccess}

\* details as log_login_success builds it when MFA was used.
MfaDetails == {<<"mfa_type", "totp">>}

----------------------------------------------------------------------------
(* Pure functions *)

\* datetime.isoformat(): the text of a clock reading.
IsoFormat(t) == <<"iso", t>>

\* Mutant: details goes into the hash as stored.
MutantDetailsAsStored(details) == details

\* Python's `details or {}`: None and the empty dict both give the empty dict.
OrEmptyDict(details) ==
    IF details = NULL THEN EmptyDict
    ELSE IF details[1] = EmptyDict THEN EmptyDict
    ELSE details[1]

\* json.dumps(entry_data, sort_keys=True): the items in ascending key order.
JsonDumpsSorted(d) ==
    << <<"details", d.details>>, <<"event_type", d.event_type>>,
       <<"ip_address", d.ip_address>>, <<"session_id", d.session_id>>,
       <<"success", d.success>>, <<"timestamp", d.timestamp>>,
       <<"user_id", d.user_id>>, <<"username", d.username>> >>

\* hashlib.sha256(...).hexdigest(), taken as collision free: the digest
\* stands for the bytes it was computed from.
Sha256(bytes) == <<"sha256", bytes>>

_compute_hash(entry_data) == Sha256(JsonDumpsSorted(entry_data))

\* entry_data as both log_event and verify_integrity build it.
EntryData(event_type, success, username, user_id, ip_address, ts, session_id, details) ==
    [event_type |-> event_type, success |-> success, username |-> username,
     user_id |-> user_id, ip_address |-> ip_address, timestamp |-> ts,
     session_id |-> session_id, details |-> OrEmptyDict(details)]

\* Mutant: the query orders by ascending id.
MutantFirstEntryHash(rows) ==
    IF rows = <<>> THEN NULL ELSE rows[1].entry_hash

\* select(AuditLog.entry_hash).order_by(desc(AuditLog.id)).limit(1)
_get_last_entry_hash(rows) ==
    IF rows = <<>> THEN NULL ELSE rows[Len(rows)].entry_hash

\* The creation timestamp the audit_logs row gets: log_event passes no
\* timestamp to AuditLog(...), so the column's default reads the clock when
\* the row is inserted.
ColumnDefaultTimestamp(now) == now

\* AuditLog(...) as log_event builds it, with the id and timestamp the insert
\* assigns.
AuditLog(id, ts, ev, previous_hash, entry_hash) ==
    [id |-> id, timestamp |-> ts,
     user_id |-> ev.user_id, username |-> ev.username,
     event_type |-> ev.event_type, success |-> ev.success,
     failure_reason |-> ev.failure_reason, ip_address |-> ev.ip_address,
     user_agent |-> ev.user_agent, session_id |-> ev.session_id,
     details |-> ev.details,
     previous_hash |-> previous_hash, entry_hash |-> entry_hash]

\* Mutant: the write replaces the newest row instead of adding one.
MutantOverwriteLast(rows, row) ==
    IF rows = <<>> THEN <<row>> ELSE [rows EXCEPT ![Len(rows)] = row]

\* db.add(audit_log); db.commit(): the row goes after every existing row.
Insert(rows, row) == Append(rows, row)

\* `if start_id:` -- None and 0 are both false.
Truthy(start_id) == start_id # NULL /\ start_id[1] # 0

\* select(AuditLog).order_by(AuditLog.id) [.where(AuditLog.id >= start_id)]
SelectLogs(rows, start_id) ==
    IF Truthy(start_id)
    THEN SelectSeq(rows, LAMBDA r : r.id >= start_id[1])
    ELSE rows

\* The hash verify_integrity recomputes from a stored row.
ComputedHash(row) ==
    _compute_hash(EntryData(row.event_type, row.success, row.username,
                            row.user_id, row.ip_address,
                            IsoFormat(row.timestamp), row.session_id,
                            row.details))

\* Mutant: the recomputed hash is never compared.
MutantNoHashCheck(row) == FALSE

\* `computed_hash != log.entry_hash` -> return False
HashMismatch(row) == ComputedHash(row) # row.entry_hash

\* Mutant: the chain linkage is never compared.
MutantNoLinkCheck(previous_hash, row) == FALSE

\* `previous_hash != log.previous_hash` -> return False
LinkBroken(previous_hash, row) == previous_hash # row.previous_hash

\* Mutant: the walk takes the first entry's link as given.
MutantTrustFirstLink(logs) ==
    IF logs = <<>> THEN NULL ELSE logs[1].previous_hash

\* `previous_hash = None` before the loop (line 214)
InitialPreviousHash(logs) == NULL

\* The loop of verify_integrity from position i with the running
\* previous_hash.
RECURSIVE VerifyLoop(_, _, _)
VerifyLoop(logs, i, previous_hash) ==
    IF i > Len(logs) THEN TRUE
    ELSE IF HashMismatch(logs[i]) THEN FALSE
    ELSE IF LinkBroken(previous_hash, logs[i]) THEN FALSE
    ELSE VerifyLoop(logs, i + 1, logs[i].entry_hash)

----------------------------------------------------------------------------
(* State *)

NoCall ==
    [ev |-> LoginFailed, previous_hash |-> NULL, timestamp |-> NULL,
     entry_hash |-> NULL, seen |-> 0]

NoTamper == [kind |-> "none", id |-> 0, field |-> "none", old |-> NULL]

InFlight == {p \in Workers : pc[p] # "idle"}

----------------------------------------------------------------------------
(* State of the staff API (apps/backend/app/api/staff.py).  One service    *)
(* request, created with the column default status NEW and one e-mail      *)
(* subscriber; each staff handler call has its own AsyncSession.           *)

\* Two staff handlers may run at the same time.
Sessions == {1, 2}

RequestIds == {"r1"}

\* core/enums.py
RequestStatus == {"new", "in_progress", "resolved", "closed"}

\* The authenticated user of each handler call (deps.get_worker_user).
UserOf(s) == IF s = 1 THEN "u1" ELSE "u2"

\* The RequestStatusUpdate payloads sent: <<status, note>>, note: str | None
Payloads ==
    {<<"new", Some("reopened")>>, <<"in_progress", NULL>>,
     <<"resolved", Some("fixed")>>, <<"closed", NULL>>}

\* settings.open311_endpoint_url and config.open311.endpoint_url
NoEndpoint == [open311_endpoint_url |-> NULL, config_endpoint_url |-> NULL]

SettingsValues ==
    {NoEndpoint,
     [open311_endpoint_url |-> Some("https://env.example/open311"),
      config_endpoint_url |-> NULL],
     [open311_endpoint_url |-> NULL,
      config_endpoint_url |-> Some("https://cfg.example/open311")]}

NewRequest ==
    [status |-> "new", updated_at |-> 0, priority |-> "medium",
     assigned_department |-> NULL, assigned_to_id |-> NULL,
     completion_photo_path |-> NULL,
     notifications |-> <<[method |-> "email", target |-> "resident@example.org"]>>]

\* A handler with no call in progress.
NoSession ==
    [pc |-> "idle", payload |-> [status |-> "new", note |-> NULL],
     request_id |-> "r1", request |-> NewRequest,
     history |-> NULL, audit |-> NULL, delivery |-> NULL]

NoResponse == "none"

StaffInit(cfg) ==
    /\ settings = cfg
    /\ requests = [r \in RequestIds |-> NewRequest]
    /\ history = <<>>
    /\ auditLogs = <<>>
    /\ deliveries = <<>>
    /\ notes = <<>>
    /\ attachments = <<>>
    /\ queue = {}
    /\ notifications = <<>>
    /\ sess = [s \in Sessions |-> NoSession]
    /\ resp = NoResponse

AuditInit ==
    /\ log = <<>>
    /\ nextId = 1
    /\ clock = 0
    /\ pc = [p \in Workers |-> "idle"]
    /\ call = [p \in Workers |-> NoCall]
    /\ vpc = "idle"
    /\ vstart = NULL
    /\ vlogs = <<>>
    /\ vresult = NULL
    /\ hashedTs = <<>>
    /\ readAt = <<>>
    /\ tamper = NoTamper
    /\ raised = {}

----------------------------------------------------------------------------
(* State of the retention service (backend/app/services/                   *)
(* retention_service.py).  Times are whole days; a record is the columns   *)
(* the service reads or writes.                                            *)

RecordIds == 1..NumRecords

\* A request closed on day 0, and one still in progress.
ClosedRecord ==
    [status |-> "closed", closed_datetime |-> Some(0), archived_at |-> NULL,
     deleted_at |-> NULL, flagged |-> FALSE, first_name |-> "Ann",
     email |-> "ann@example.org", description |-> "pothole"]

OpenRecord ==
    [ClosedRecord EXCEPT !.status = "in_progress", !.closed_datetime = NULL]

NoArchive == [pc |-> "idle", record_id |-> 0, archive_mode |-> "anonymize"]

NoRetentionCall == [fn |-> "none"]

RetentionInit(rows) ==
    /\ records = rows
    /\ arch = NoArchive
    /\ rcall = NoRetentionCall

----------------------------------------------------------------------------
(* State of the login flow (backend/app/api/auth.py).                      *)

\* Two callback requests may be in progress at the same time.
Callers == {1, 2}

\* A callback handler with no call in progress.
NoCallback == [pc |-> "idle", state |-> "", redirect_uri |-> ""]

AuthInit ==
    /\ _pending_states = <<>>
    /\ nextState = 1
    /\ cb = [c \in Callers |-> NoCallback]
    /\ alog = <<>>
    /\ jwts = <<>>
    /\ aresp = NoResponse

\* The audit service on its own: the staff API is not configured and idle,
\* the retention service and the login flow are idle.
Init ==
    /\ AuditInit
    /\ StaffInit(NoEndpoint)
    /\ RetentionInit([id \in RecordIds |-> ClosedRecord])
    /\ AuthInit

\* Another log_event call may still start within the bounds.
CanStart == tamper.kind = "none" /\ Len(log) + Cardinality(InFlight) < MaxEntries

\* Time passes (tracked while a call can still read the clock).
Tick ==
    /\ clock < MaxClock
    /\ CanStart \/ InFlight # {}
    /\ clock' = clock + 1
    /\ UNCHANGED <<log, nextId, pc, call, vpc, vstart, vlogs, vresult,
                   hashedTs, readAt, tamper, raised>>
    /\ UNCHANGED otherVars

\* log_event, lines 70-86: read the last entry's hash, build entry_data with
\* the current time, hash it.
log_event_hash(p, ev) ==
    /\ pc[p] = "idle"
    /\ LET previous_hash == _get_last_entry_hash(log)
           entry_data == EntryData(ev.event_type, ev.success, ev.username,
                                   ev.user_id, ev.ip_address, IsoFormat(clock),
                                   ev.session_id, ev.details)
       IN call' = [call EXCEPT ![p] =
                      [ev |-> ev, previous_hash |-> previous_hash,
                       timestamp |-> entry_data.timestamp,
                       entry_hash |-> _compute_hash(entry_data),
                       seen |-> Len(log)]]
    /\ pc' = [pc EXCEPT ![p] = "hashed"]
    /\ raised' = raised \ {p}
    /\ UNCHANGED <<log, nextId, clock, vpc, vstart, vlogs, vresult,
                   hashedTs, readAt, tamper>>
    /\ UNCHANGED otherVars

\* log_event, lines 88-107: build the AuditLog row, add, commit, return.
log_event_commit(p) ==
    /\ pc[p] = "hashed"
    /\ log' = Insert(log, AuditLog(nextId, ColumnDefaultTimestamp(clock),
                                   call[p].ev, call[p].previous_hash,
                                   call[p].entry_hash))
    /\ nextId' = nextId + 1
    /\ hashedTs' = Append(hashedTs, call[p].timestamp)
    /\ readAt' = Append(readAt, call[p].seen)
    /\ pc' = [pc EXCEPT ![p] = "idle"]
    /\ call' = [call EXCEPT ![p] = NoCall]
    /\ UNCHANGED <<clock, vpc, vstart, vlogs, vresult, tamper, raised>>
    /\ UNCHANGED otherVars

\* The start_id arguments tried: None, 0 and every id the table can hold.
StartIds == {NULL} \cup {Some(k) : k \in 0..MaxEntries}

\* verify_integrity, lines 207-212: the one query that reads the rows.
verify_integrity_query(start_id) ==
    /\ vpc = "idle"
    /\ vpc' = "walking"
    /\ vstart' = start_id
    /\ vlogs' = SelectLogs(log, start_id)
    /\ vresult' = NULL
    /\ UNCHANGED <<log, nextId, clock, pc, call, hashedTs, readAt, tamper, raised>>
    /\ UNCHANGED otherVars

\* verify_integrity, lines 214-238: the walk over `logs` and the return (the
\* call's locals end with it).
verify_integrity_walk ==
    /\ vpc = "walking"
    /\ vpc' = "idle"
    /\ vresult' = Some(VerifyLoop(vlogs, 1, InitialPreviousHash(vlogs)))
    /\ vstart' = NULL
    /\ vlogs' = <<>>
    /\ UNCHANGED <<log, nextId, clock, pc, call, hashedTs, readAt, tamper, raised>>
    /\ UNCHANGED otherVars

\* Appends strictly one after another: a call starts only when none is in
\* progress.
log_event_sequential(ev) ==
    /\ InFlight = {}
    /\ CanStart
    /\ log_event_hash(CHOOSE w \in Workers : TRUE, ev)

NextSeq ==
    \/ Tick
    \/ \E ev \in Events : log_event_sequential(ev)
    \/ \E p \in Workers : log_event_commit(p)
    \/ \E s \in StartIds : verify_integrity_query(s)
    \/ verify_integrity_walk

SpecSeq == Init /\ [][NextSeq]_vars

----------------------------------------------------------------------------
(* Concurrent appends: a call of log_event may start at any time, also     *)
(* during a verification.  The workers are interchangeable, so a new call  *)
(* takes the lowest idle one.  A verification starts once the calls in     *)
(* progress have finished (a verification that starts during an append is  *)
(* part of SpecSeq).                                                       *)

LowestIdle(p) == pc[p] = "idle" /\ \A q \in Workers : q < p => pc[q] # "idle"

log_event_concurrent(p, ev) ==
    /\ LowestIdle(p)
    /\ CanStart
    /\ log_event_hash(p, ev)

verify_integrity_quiesced(start_id) ==
    /\ InFlight = {}
    /\ verify_integrity_query(start_id)

Next ==
    \/ Tick
    \/ \E p \in Workers, ev \in Events : log_event_concurrent(p, ev)
    \/ \E p \in Workers : log_event_commit(p)
    \/ \E s \in StartIds : verify_integrity_quiesced(s)
    \/ verify_integrity_walk

Spec == Init /\ [][Next]_vars

----------------------------------------------------------------------------
(* Direct writes to the audit_logs table, behind the service: one UPDATE or *)
(* DELETE on a chain written by sequential appends, then verification.  No *)
(* append follows the write, so the clock is not read after it.           *)

HashedFields ==
    {"event_type", "success", "username", "user_id", "ip_address",
     "timestamp", "session_id", "details"}

UnhashedFields == {"failure_reason", "user_agent"}

\* The two columns that hold the chain itself.
ChainFields == {"previous_hash", "entry_hash"}

\* The values a direct write may put into a column.
FieldValues(f) ==
    CASE f = "event_type" -> {"login_failed", "login_success"}
      [] f = "success" -> BOOLEAN
      [] f = "username" -> {Some("alice"), Some("mallory")}
      [] f = "user_id" -> {NULL, Some(1)}
      [] f = "ip_address" -> {NULL, Some("10.0.0.1")}
      [] f = "timestamp" -> 0..MaxClock
      [] f = "session_id" -> {NULL, Some("s1")}
      [] f = "details" -> {NULL, Some(EmptyDict), Some(MfaDetails)}
      [] f = "failure_reason" -> {NULL, Some("bad password")}
      [] f = "user_agent" -> {NULL, Some("curl")}
      [] f \in ChainFields ->
           {NULL} \cup {log[j].entry_hash : j \in 1..Len(log)}

\* The sequence without its i-th element.
RemoveAt(rows, i) == SubSeq(rows, 1, i - 1) \o SubSeq(rows, i + 1, Len(rows))

Quiescent == InFlight = {} /\ vpc = "idle"

\* UPDATE audit_logs SET f = v WHERE id = log[i].id, with v a different value.
TamperField(i, f, v) ==
    /\ tamper.kind = "none"
    /\ Quiescent
    /\ v # log[i][f]
    /\ log' = [log EXCEPT ![i] = [@ EXCEPT ![f] = v]]
    /\ tamper' = [kind |-> "field", id |-> log[i].id, field |-> f,
                  old |-> log[i]]
    /\ vresult' = NULL
    /\ UNCHANGED <<nextId, clock, pc, call, vpc, vstart, vlogs, hashedTs, readAt,
                   raised>>
    /\ UNCHANGED otherVars

\* DELETE FROM audit_logs WHERE id = log[i].id
TamperDelete(i) ==
    /\ tamper.kind = "none"
    /\ Quiescent
    /\ log' = RemoveAt(log, i)
    /\ tamper' = [kind |-> "delete", id |-> log[i].id, field |-> "none",
                  old |-> log[i]]
    /\ vresult' = NULL
    /\ UNCHANGED <<nextId, clock, pc, call, vpc, vstart, vlogs, hashedTs, readAt,
                   raised>>
    /\ UNCHANGED otherVars

\* DELETE FROM audit_logs WHERE id > log[k].id: the newest entries go, two
\* or more of them (k = 0: all).
TamperTruncate(k) ==
    /\ tamper.kind = "none"
    /\ Quiescent
    /\ k <= Len(log) - 2
    /\ log' = SubSeq(log, 1, k)
    /\ tamper' = [kind |-> "truncate", id |-> k + 1, field |-> "none",
                  old |-> SubSeq(log, k + 1, Len(log))]
    /\ vresult' = NULL
    /\ UNCHANGED <<nextId, clock, pc, call, vpc, vstart, vlogs, hashedTs, readAt,
                   raised>>
    /\ UNCHANGED otherVars

NextTamper ==
    \/ Tick
    \/ \E ev \in Events : log_event_sequential(ev)
    \/ \E p \in Workers : log_event_commit(p)
    \/ \E s \in StartIds : verify_integrity_query(s)
    \/ verify_integrity_walk
    \/ \E i \in 1..Len(log) :
         \E f \in HashedFields \cup UnhashedFields :
           \E v \in FieldValues(f) : TamperField(i, f, v)
    \/ \E i \in 1..Len(log) : TamperDelete(i)

SpecTamper == Init /\ [][NextTamper]_vars

\* Direct writes to any column, the two chain columns included, and
\* deletions of one entry or of the newest entries, each followed by
\* verifications of the whole log.
NextTamperChain ==
    \/ Tick
    \/ \E ev \in Events : log_event_sequential(ev)
    \/ \E p \in Workers : log_event_commit(p)
    \/ verify_integrity_query(NULL)
    \/ verify_integrity_walk
    \/ \E i \in 1..Len(log) :
         \E f \in HashedFields \cup UnhashedFields \cup ChainFields :
           \E v \in FieldValues(f) : TamperField(i, f, v)
    \/ \E i \in 1..Len(log) : TamperDelete(i)
    \/ \E k \in 0..Len(log) : TamperTruncate(k)

SpecTamperChain == Init /\ [][NextTamperChain]_vars

----------------------------------------------------------------------------
(* Vocabulary of the properties *)

\* The step in which verify_integrity returns.
VerifyReturns == vpc = "walking" /\ vpc' = "idle"

\* The call in progress verifies the whole log (start_id None or 0).
WholeLog == ~Truthy(vstart)

\* The stored entry_hash of a row is the hash of the row's stored content.
HashMatches(row) == row.entry_hash = ComputedHash(row)

\* Every row points at the stored entry_hash of the row with the next-lower
\* id, the first row at nothing.
Chained(rows) ==
    \A i \in 1..Len(rows) :
        rows[i].previous_hash =
            IF i = 1 THEN NULL ELSE rows[i - 1].entry_hash

\* C1: after sequential log_event calls and no other write, verify_integrity
\* over the whole log returns True.
C1_SequentialAppendsVerifyTrue ==
    [][VerifyReturns /\ WholeLog => vresult' = Some(TRUE)]_vars

\* C2: overlapping log_event calls never leave two entries with the same
\* previous_hash, and once all calls have finished verify_integrity over the
\* whole log returns True.  (Stated for the runs in which every stored
\* entry_hash matches its row, so that only the chaining is in question.)
C2_NoSharedPreviousHash ==
    [][/\ \A i, j \in 1..Len(log') :
            i # j => log'[i].previous_hash # log'[j].previous_hash
       /\ (VerifyReturns /\ WholeLog /\ InFlight = {} /\ vlogs = log
             /\ \A i \in 1..Len(log) : HashMatches(log[i]))
          => vresult' = Some(TRUE)]_vars

\* C5: after sequential log_event calls the first entry has previous_hash
\* None and every other entry's previous_hash is the stored entry_hash of the
\* entry with the next-lower id.
C5_PreviousHashLinksToPredecessor == Chained(log)

C5_Witness ==
    /\ Len(log) = MaxEntries
    /\ log[1].previous_hash = NULL
    /\ log[2].previous_hash = log[1].entry_hash
    /\ log[2].entry_hash # log[1].entry_hash

\* C6: the stored entry_hash of every entry log_event persisted is the hash
\* of the canonical serialization of the entry's own stored values.
C6_EntryHashOfStoredValues ==
    \A i \in 1..Len(log) : HashMatches(log[i])

\* C6's case in the run that refutes it: a committed row whose stored
\* timestamp is not the one that was hashed.
StoredTimestampDiffers(row) == IsoFormat(row.timestamp) # hashedTs[row.id]

\* Two rows written by log_event calls with identical arguments.
IdenticalArgs(r1, r2) ==
    /\ r1.event_type = r2.event_type
    /\ r1.success = r2.success
    /\ r1.username = r2.username
    /\ r1.user_id = r2.user_id
    /\ r1.ip_address = r2.ip_address
    /\ r1.user_agent = r2.user_agent
    /\ r1.session_id = r2.session_id
    /\ r1.failure_reason = r2.failure_reason
    /\ r1.details = r2.details

\* C7: two sequential log_event calls with identical arguments give two
\* entries with distinct ids, the second chained to the first, with different
\* entry_hash whenever their timestamps differ, and the chain verifies.
C7_IdenticalCallsTwoChainedEntries ==
    [][/\ \A i \in 2..Len(log') :
            IdenticalArgs(log'[i - 1], log'[i]) =>
                /\ log'[i - 1].id # log'[i].id
                /\ log'[i].previous_hash = log'[i - 1].entry_hash
                /\ log'[i - 1].timestamp # log'[i].timestamp
                     => log'[i - 1].entry_hash # log'[i].entry_hash
       /\ (VerifyReturns /\ WholeLog /\ Len(vlogs) = 2
             /\ IdenticalArgs(vlogs[1], vlogs[2]))
          => vresult' = Some(TRUE)]_vars

\* The entry_hash of the row before position i in the chain.
PredecessorHash(rows, i) == IF i = 1 THEN NULL ELSE rows[i - 1].entry_hash

\* Every row of `rows` with id >= k has a matching entry_hash and a
\* previous_hash equal to the hash of its predecessor in the chain.
RangeIntact(rows, k) ==
    \A i \in 1..Len(rows) :
        rows[i].id >= k =>
            /\ HashMatches(rows[i])
            /\ rows[i].previous_hash = PredecessorHash(rows, i)

\* C8: on an untampered chain verify_integrity(start_id = k), k an existing
\* id, walks the entries with id >= k in ascending order and returns True
\* exactly when every walked entry has a matching entry_hash and a
\* previous_hash equal to the hash of its predecessor in the chain.
C8_VerifyFromStartId ==
    [][(/\ VerifyReturns
        /\ Truthy(vstart)
        /\ \E i \in 1..Len(log) :
              /\ log[i].id = vstart[1]
              /\ vlogs = SubSeq(log, i, Len(log)))
       => /\ \A i \in 1..Len(vlogs) : vlogs[i].id >= vstart[1]
          /\ \A i \in 2..Len(vlogs) : vlogs[i - 1].id < vlogs[i].id
          /\ vresult' = Some(RangeIntact(log, vstart[1]))]_vars

\* vlogs is an initial part of rows.
IsPrefix(short, rows) ==
    /\ Len(short) <= Len(rows)
    /\ SubSeq(rows, 1, Len(short)) = short

\* C9: a verify_integrity call that overlaps (non-overlapping) log_event
\* calls never returns False; it saw a prefix of the chain and wrote nothing.
C9_VerifyDuringAppends ==
    [][(VerifyReturns /\ WholeLog /\ (InFlight # {} \/ vlogs # log))
       => /\ vresult' = Some(TRUE)
          /\ IsPrefix(vlogs, log)
          /\ log' = log]_vars

\* The step in which a log_event call commits and returns.
LogEventReturns == \E p \in Workers : pc[p] = "hashed" /\ pc'[p] = "idle"

\* C10: a successful log_event call adds exactly one entry, with an id above
\* every existing id, and changes no stored entry; no other step of log_event
\* or verify_integrity changes or deletes an entry.
C10_AppendOnly ==
    [][/\ LogEventReturns =>
            /\ Len(log') = Len(log) + 1
            /\ SubSeq(log', 1, Len(log)) = log
            /\ \A i \in 1..Len(log) : log'[Len(log')].id > log[i].id
       /\ ~LogEventReturns => log' = log]_vars

C10_Witness ==
    /\ Len(log) = MaxEntries
    /\ vresult # NULL
    /\ \A i \in 2..Len(log) : log[i].id > log[i - 1].id

----------------------------------------------------------------------------
(* Direct writes *)

\* The position in the log of the row with the given id.
PosOf(id) == CHOOSE i \in 1..Len(log) : log[i].id = id

\* The log as it was before the direct write.
BeforeTamper ==
    CASE tamper.kind = "field" ->
           [log EXCEPT ![PosOf(tamper.id)] = tamper.old]
      [] tamper.kind = "delete" ->
           SubSeq(log, 1, tamper.id - 1) \o <<tamper.old>>
             \o SubSeq(log, tamper.id, Len(log))
      [] tamper.kind = "truncate" -> log \o tamper.old
      [] OTHER -> log

\* C3 as stated: after a direct change of one hashed content field of one
\* entry to a different value, verify_integrity returns False.
C3_AnyFieldChangeDetected ==
    [][(/\ VerifyReturns /\ WholeLog
        /\ tamper.kind = "field"
        /\ tamper.field \in HashedFields)
       => vresult' = Some(FALSE)]_vars

\* The changed column now holds content other than what log_event hashed:
\* details counts after `or {}` (None and the empty dict are one content),
\* timestamp counts against the timestamp that went into the hash.
HashedContentChanged ==
    LET row == log[PosOf(tamper.id)]
    IN CASE tamper.field = "details" ->
              OrEmptyDict(row.details) # OrEmptyDict(tamper.old.details)
         [] tamper.field = "timestamp" ->
              IsoFormat(row.timestamp) # hashedTs[tamper.id]
         [] OTHER -> row[tamper.field] # tamper.old[tamper.field]

\* C3, amended: a direct change of event_type, success, username, user_id,
\* ip_address or session_id to a different value, of details to a value that
\* differs after `or {}`, or of timestamp to a value other than the hashed
\* one, makes verify_integrity over the whole log return False.
C3_HashedContentChangeDetected ==
    [][(/\ VerifyReturns /\ WholeLog
        /\ tamper.kind = "field"
        /\ tamper.field \in HashedFields
        /\ HashedContentChanged)
       => vresult' = Some(FALSE)]_vars

\* A chain that verified is read by verify_integrity after one of its
\* entries had a hashed field changed, and the walk fails.
C3_Witness ==
    /\ vpc = "walking" /\ WholeLog
    /\ tamper.kind = "field"
    /\ tamper.field = "details"
    /\ HashedContentChanged
    /\ Len(log) = MaxEntries
    /\ VerifyLoop(BeforeTamper, 1, NULL)
    /\ ~VerifyLoop(vlogs, 1, NULL)

\* The deleted entry was neither the first nor the last of its chain.
MiddleDeleted ==
    /\ tamper.kind = "delete"
    /\ \E i, j \in 1..Len(log) : log[i].id < tamper.id /\ tamper.id < log[j].id

\* C4 as stated: deleting an entry that is neither first nor last makes
\* verify_integrity over the whole log return False.
C4_MiddleDeleteDetected ==
    [][(VerifyReturns /\ WholeLog /\ MiddleDeleted)
       => vresult' = Some(FALSE)]_vars

\* The deleted entry carried the same entry_hash as the entry before it
\* (same content hashed at the same clock reading).
DeletedDuplicatesPredecessor ==
    tamper.old.entry_hash = log[PosOf(tamper.id - 1)].entry_hash

\* C4, amended: deleting an entry that is neither first nor last makes
\* verify_integrity over the whole log return False, unless the deleted
\* entry's entry_hash equals the entry_hash of the entry before it.
C4_MiddleDeleteDetectedUnlessDuplicate ==
    [][(/\ VerifyReturns /\ WholeLog
        /\ MiddleDeleted
        /\ ~DeletedDuplicatesPredecessor)
       => vresult' = Some(FALSE)]_vars

\* A chain of three that verified is read by verify_integrity after its
\* middle entry was deleted, and the walk fails.
C4_Witness ==
    /\ vpc = "walking" /\ WholeLog
    /\ MiddleDeleted
    /\ ~DeletedDuplicatesPredecessor
    /\ VerifyLoop(BeforeTamper, 1, NULL)
    /\ ~VerifyLoop(vlogs, 1, NULL)

----------------------------------------------------------------------------
(* A storage failure inside log_event.  Lines 103-104 are not wrapped in   *)
(* try/except and are executed once: when add or commit raises, the        *)
(* exception leaves log_event and the transaction is rolled back.          *)

MutantPartialWrite(rows, entry) == Insert(rows, entry)

\* The table after a commit that failed: the rows it had.
RolledBack(rows, entry) == rows

\* log_event, lines 88-104, with add/commit raising.
log_event_commit_fails(p) ==
    /\ pc[p] = "hashed"
    /\ log' = RolledBack(log, AuditLog(nextId, ColumnDefaultTimestamp(clock),
                                       call[p].ev, call[p].previous_hash,
                                       call[p].entry_hash))
    /\ raised' = raised \cup {p}
    /\ pc' = [pc EXCEPT ![p] = "idle"]
    /\ call' = [call EXCEPT ![p] = NoCall]
    /\ UNCHANGED <<nextId, clock, vpc, vstart, vlogs, vresult, hashedTs, readAt,
                   tamper>>
    /\ UNCHANGED otherVars

NextFail ==
    \/ Tick
    \/ \E p \in Workers, ev \in Events : log_event_concurrent(p, ev)
    \/ \E p \in Workers : log_event_commit(p)
    \/ \E p \in Workers : log_event_commit_fails(p)

SpecFail == Init /\ [][NextFail]_vars

\* The step in which worker p's log_event call ends.
LogEventEnds(p) == pc[p] = "hashed" /\ pc'[p] = "idle"

\* C11: a log_event call whose storage write fails raises, leaves the audit
\* log exactly as it was and keeps nothing pending that could be written
\* later (no retry); a call that does not raise has appended its one row.
C11_FailedWriteLeavesLogUnchanged ==
    [][\A p \in Workers :
          LogEventEnds(p) =>
            /\ call'[p] = NoCall
            /\ IF p \in raised'
                  THEN log' = log
                  ELSE Len(log') = Len(log) + 1 /\ SubSeq(log', 1, Len(log)) = log]_vars

\* A call has failed on a log that already holds an entry.
C11_Witness == raised # {} /\ Len(log) >= 1

----------------------------------------------------------------------------
(* Staff API: update_request_status (staff.py 75-115) and what it calls.   *)

\* open311.py 19-24
_target_url ==
    IF settings.open311_endpoint_url # NULL
      THEN settings.open311_endpoint_url
      ELSE IF settings.config_endpoint_url # NULL
             THEN settings.config_endpoint_url
             ELSE NULL

MutantSwappedStatuses(request_id, from_status, to_status, changed_by_id, note) ==
    [request_id |-> request_id, from_status |-> Some(to_status),
     to_status |-> from_status[1], changed_by_id |-> changed_by_id,
     note |-> note]

MutantNullFromStatus(request_id, from_status, to_status, changed_by_id, note) ==
    [request_id |-> request_id, from_status |-> NULL,
     to_status |-> to_status, changed_by_id |-> changed_by_id, note |-> note]

\* staff.py 86-92; the id is assigned when the row is inserted.
RequestStatusHistory(request_id, from_status, to_status, changed_by_id, note) ==
    [request_id |-> request_id, from_status |-> from_status,
     to_status |-> to_status, changed_by_id |-> changed_by_id, note |-> note]

\* staff.py 97-102 (and 128-133, 151-159, 182-187, 216-221)
StaffAuditLog(actor_user_id, request_id, action_type, details) ==
    [actor_user_id |-> actor_user_id, request_id |-> request_id,
     action_type |-> action_type, details |-> details]

\* staff.py 101: the details of a request.status_changed row
StatusChangedDetails(hist) ==
    {<<"from", IF hist.from_status # NULL THEN hist.from_status ELSE NULL>>,
     <<"to", hist.to_status>>}

\* open311.py 48-66, the fields that depend on the status change
build_open311_payload(request_id, request, hist) ==
    [service_request_id |-> request_id, status |-> request.status,
     status_notes |-> IF hist # NULL THEN hist[1].note ELSE NULL]

\* open311.py 27-45: None without a target URL, else a new pending delivery
\* added to the session.
schedule_status_webhook(request_id, request, hist) ==
    LET url == _target_url
    IN IF url = NULL
         THEN NULL
         ELSE Some([request_id |-> request_id, target_url |-> url[1],
                    payload |-> build_open311_payload(request_id, request, hist),
                    status |-> "pending", attempts |-> 0,
                    response_body |-> NULL])

MutantNeverSame(request, status) == FALSE

\* staff.py 83
SameStatus(request, status) == request.status = status

\* Status changes written or about to be written.
StartedChanges ==
    Len(history) + Cardinality({s \in Sessions : sess[s].pc = "pending"})

\* datetime.now(timezone.utc), staff.py 94: the request was created at time
\* 0 and a handler reads a later time.
Now == 1 + clock

\* staff.py 82-105: load the request; return it unchanged when it already
\* has the requested status, otherwise build the history row, set the new
\* status on the loaded object and add history, audit row and webhook
\* delivery to the session.  Nothing is visible to other sessions yet.
update_request_status_call(s, request_id, status, note) ==
    /\ sess[s].pc = "idle"
    /\ LET request == requests[request_id]
       IN IF SameStatus(request, status)
            THEN /\ resp' = "returned_84"
                 /\ UNCHANGED sess
            ELSE /\ StartedChanges < MaxChanges
                 /\ LET hist == RequestStatusHistory(request_id,
                                     Some(request.status), status, UserOf(s), note)
                        changed == [request EXCEPT !.status = status,
                                                   !.updated_at = Now]
                    IN sess' = [sess EXCEPT ![s] =
                          [pc |-> "pending",
                           payload |-> [status |-> status, note |-> note],
                           request_id |-> request_id,
                           request |-> changed, history |-> Some(hist),
                           audit |-> Some(StaffAuditLog(UserOf(s), request_id,
                                          "request.status_changed",
                                          StatusChangedDetails(hist))),
                           delivery |-> schedule_status_webhook(request_id,
                                            changed, Some(hist))]]
                 /\ UNCHANGED resp
    \* time passes between two accepted calls, up to MaxClock
    /\ clock' = IF ~SameStatus(requests[request_id], status) /\ clock < MaxClock
                  THEN clock + 1 ELSE clock
    /\ UNCHANGED <<settings, requests, history, auditLogs, deliveries, notes,
                   attachments, queue, notifications>>
    /\ UNCHANGED <<auditRest, retentionVars, authVars>>

MutantInsertTwice(rows, row) ==
    Append(Append(rows, [id |-> Len(rows) + 1] @@ row),
           [id |-> Len(rows) + 2] @@ row)

\* INSERT of one row with an autoincrement id.
InsertRow(rows, row) == Append(rows, [id |-> Len(rows) + 1] @@ row)

MutantInsertsSurviveRollback(table, pending) ==
    IF pending = NULL THEN table ELSE InsertRow(table, pending[1])

\* A table after the transaction holding `pending` for it was rolled back.
Rollback(table, pending) == table

\* staff.py 107-108: commit writes the changed columns of the request and
\* the added rows in one transaction; refresh reloads the request.
update_request_status_commit(s) ==
    /\ sess[s].pc = "pending"
    /\ LET id == sess[s].request_id
           committed == [requests[id] EXCEPT
                            !.status = sess[s].request.status,
                            !.updated_at = sess[s].request.updated_at]
       IN /\ requests' = [requests EXCEPT ![id] = committed]
          /\ history' = InsertRow(history, sess[s].history[1])
          /\ auditLogs' = InsertRow(auditLogs, sess[s].audit[1])
          /\ deliveries' = IF sess[s].delivery = NULL THEN deliveries
                           ELSE InsertRow(deliveries, sess[s].delivery[1])
          /\ sess' = [sess EXCEPT ![s] =
                [@ EXCEPT !.pc = "committed", !.request = committed,
                          !.delivery = IF @ = NULL THEN NULL
                                       ELSE Some([id |-> Len(deliveries) + 1] @@ @[1])]]
    /\ UNCHANGED <<settings, notes, attachments, queue, notifications, resp>>
    /\ UNCHANGED <<auditVars, retentionVars, authVars>>

\* staff.py 107 raising: the exception leaves the handler, the session is
\* closed (database.py 41-43) and its transaction rolled back.
update_request_status_commit_fails(s) ==
    /\ sess[s].pc = "pending"
    /\ history' = Rollback(history, sess[s].history)
    /\ auditLogs' = Rollback(auditLogs, sess[s].audit)
    /\ deliveries' = Rollback(deliveries, sess[s].delivery)
    /\ sess' = [sess EXCEPT ![s] = NoSession]
    /\ resp' = "raised"
    /\ UNCHANGED <<settings, requests, notes, attachments, queue, notifications>>
    /\ UNCHANGED <<auditVars, retentionVars, authVars>>

\* staff.py 267-278: one message per opt-in that has a target.
_notify_subscribers(request_id, request) ==
    LET opt_ins == SelectSeq(request.notifications,
                             LAMBDA o : o.method \in {"email", "sms"} /\ o.target # "")
    IN [i \in 1..Len(opt_ins) |->
          [method |-> opt_ins[i].method, target |-> opt_ins[i].target,
           request_id |-> request_id, status |-> request.status]]

MutantEnqueueUnscheduled(q, delivery) ==
    q \cup {IF delivery # NULL THEN delivery[1].id ELSE Len(deliveries) + 1}

\* staff.py 110-111: deliver_webhook_task.delay(delivery.id) when a delivery
\* was scheduled
Enqueue(q, delivery) ==
    IF delivery # NULL THEN q \cup {delivery[1].id} ELSE q

\* staff.py 110-115: after the commit, hand the delivery (if one was
\* scheduled) to the worker queue, notify the subscribers and return.
update_request_status_publish(s) ==
    /\ sess[s].pc = "committed"
    /\ queue' = Enqueue(queue, sess[s].delivery)
    /\ notifications' = notifications \o
           _notify_subscribers(sess[s].request_id,
               [sess[s].request EXCEPT
                   !.notifications = requests[sess[s].request_id].notifications])
    /\ sess' = [sess EXCEPT ![s] = NoSession]
    /\ resp' = "returned_115"
    /\ UNCHANGED <<settings, requests, history, auditLogs, deliveries, notes,
                   attachments>>
    /\ UNCHANGED <<auditVars, retentionVars, authVars>>

\* The outcomes of a webhook POST while status changes overlap: a response
\* that is accepted, or an exception.
Responses == {Some(200), NULL}

\* The outcomes of a webhook POST: a status code below 400, the status code
\* 400, or an exception.
StatusCodes == {Some(200), Some(400), NULL}

\* response.text[:2000] of a response, str(exc) of a transport error
ResponseBody(response) ==
    IF response # NULL THEN <<"text", response[1]>> ELSE <<"exc", "ConnectError">>

MutantSuccessBelow500(delivery, response) ==
    IF delivery.target_url = "" THEN delivery
    ELSE [delivery EXCEPT
            !.attempts = @ + 1,
            !.response_body = Some(ResponseBody(response)),
            !.status = IF response # NULL /\ response[1] < 500
                         THEN "success" ELSE "failed"]

\* open311.py 69-93: nothing without a target URL; else one POST, whose
\* outcome is a response (lines 80-87) or an exception (lines 90-93).
send_webhook(delivery, response) ==
    IF delivery.target_url = "" THEN delivery
    ELSE [delivery EXCEPT
            !.attempts = @ + 1,
            !.response_body = Some(ResponseBody(response)),
            !.status = IF response # NULL /\ response[1] < 400
                         THEN "success" ELSE "failed"]

\* workers/tasks.py 38-50: load the row; without it log a warning and
\* return, else post it and commit the outcome.
_deliver_webhook(delivery_id, response) ==
    IF \A i \in 1..Len(deliveries) : deliveries[i].id # delivery_id
      THEN /\ resp' = "delivery_not_found"
           /\ UNCHANGED deliveries
      ELSE /\ deliveries' =
                [i \in 1..Len(deliveries) |->
                   IF deliveries[i].id = delivery_id
                     THEN send_webhook(deliveries[i], response)
                     ELSE deliveries[i]]
           /\ UNCHANGED resp

\* workers/tasks.py 33-35: the worker takes a queued id and runs the task.
deliver_webhook_task(delivery_id, response) ==
    /\ delivery_id \in queue
    /\ queue' = queue \ {delivery_id}
    /\ _deliver_webhook(delivery_id, response)
    /\ UNCHANGED <<settings, requests, history, auditLogs, notes, attachments,
                   notifications, sess>>
    /\ UNCHANGED <<auditVars, retentionVars, authVars>>

----------------------------------------------------------------------------
(* The other staff operations on a request (staff.py 118-226).  Each loads *)
(* the request, changes it or adds a row, adds an audit row and commits.   *)

OtherOps ==
    Cardinality({i \in 1..Len(auditLogs) :
                   auditLogs[i].action_type # "request.status_changed"})

CanStartOther(s) == sess[s].pc = "idle" /\ OtherOps < MaxOtherOps

\* staff.py 118-137
update_priority(s, request_id, priority) ==
    /\ CanStartOther(s)
    /\ requests' = [requests EXCEPT ![request_id].priority = priority]
    /\ auditLogs' = InsertRow(auditLogs,
           StaffAuditLog(UserOf(s), request_id, "request.priority_changed",
                         {<<"priority", priority>>}))
    /\ resp' = "returned"
    /\ UNCHANGED <<settings, history, deliveries, notes, attachments, queue,
                   notifications, sess>>
    /\ UNCHANGED <<auditVars, retentionVars, authVars>>

\* staff.py 140-163
update_assignment(s, request_id, assigned_department, assigned_to_id) ==
    /\ CanStartOther(s)
    /\ LET department == IF assigned_department # NULL
                           THEN assigned_department
                           ELSE requests[request_id].assigned_department
       IN /\ requests' = [requests EXCEPT
                 ![request_id].assigned_department = department,
                 ![request_id].assigned_to_id = assigned_to_id]
          /\ auditLogs' = InsertRow(auditLogs,
                 StaffAuditLog(UserOf(s), request_id, "request.assignment_changed",
                               {<<"assigned_department", department>>,
                                <<"assigned_to_id", assigned_to_id>>}))
    /\ resp' = "returned"
    /\ UNCHANGED <<settings, history, deliveries, notes, attachments, queue,
                   notifications, sess>>
    /\ UNCHANGED <<auditVars, retentionVars, authVars>>

\* staff.py 166-192
add_note(s, request_id, visibility, body) ==
    /\ CanStartOther(s)
    /\ notes' = InsertRow(notes, [request_id |-> request_id,
                                  author_id |-> UserOf(s),
                                  visibility |-> visibility, body |-> body])
    /\ auditLogs' = InsertRow(auditLogs,
           StaffAuditLog(UserOf(s), request_id, "request.note_added",
                         {<<"visibility", visibility>>}))
    /\ resp' = "returned"
    /\ UNCHANGED <<settings, requests, history, deliveries, attachments, queue,
                   notifications, sess>>
    /\ UNCHANGED <<auditVars, retentionVars, authVars>>

\* staff.py 195-226
upload_attachment(s, request_id, attachment_type) ==
    /\ CanStartOther(s)
    /\ LET stored_path == "requests/r1/photo.jpg"
       IN /\ attachments' = InsertRow(attachments,
                 [request_id |-> request_id, uploaded_by_id |-> UserOf(s),
                  file_path |-> stored_path, file_type |-> attachment_type])
          /\ requests' = IF attachment_type = "completion"
                           THEN [requests EXCEPT
                                   ![request_id].completion_photo_path = Some(stored_path)]
                           ELSE requests
    /\ auditLogs' = InsertRow(auditLogs,
           StaffAuditLog(UserOf(s), request_id, "request.attachment_added",
                         {<<"file_type", attachment_type>>}))
    /\ resp' = "returned"
    /\ UNCHANGED <<settings, history, deliveries, notes, queue,
                   notifications, sess>>
    /\ UNCHANGED <<auditVars, retentionVars, authVars>>

InitStaff ==
    /\ AuditInit
    /\ \E cfg \in SettingsValues : StaffInit(cfg)
    /\ RetentionInit([id \in RecordIds |-> ClosedRecord])
    /\ AuthInit

NextStaff ==
    \/ \E s \in Sessions, r \in RequestIds, payload \in Payloads :
         update_request_status_call(s, r, payload[1], payload[2])
    \/ \E s \in Sessions : update_request_status_commit(s)
    \/ \E s \in Sessions : update_request_status_commit_fails(s)
    \/ \E s \in Sessions : update_request_status_publish(s)
    \/ \E d \in queue, response \in Responses : deliver_webhook_task(d, response)

SpecStaff == InitStaff /\ [][NextStaff]_vars

\* One status change at a time, every other operation at any time; no
\* Open311 endpoint is configured.
update_request_status_sequential(request_id, status, note) ==
    /\ \A s \in Sessions : sess[s].pc = "idle"
    /\ update_request_status_call(1, request_id, status, note)

NextStaffOps ==
    \/ \E r \in RequestIds, payload \in Payloads :
         update_request_status_sequential(r, payload[1], payload[2])
    \/ \E s \in Sessions : update_request_status_commit(s)
    \/ \E s \in Sessions : update_request_status_commit_fails(s)
    \/ \E s \in Sessions : update_request_status_publish(s)
    \/ \E s \in Sessions, r \in RequestIds : update_priority(s, r, "high")
    \/ \E s \in Sessions, r \in RequestIds :
         update_assignment(s, r, Some("Public Works"), Some("u2"))
    \/ \E s \in Sessions, r \in RequestIds : add_note(s, r, "internal", "on site")
    \/ \E s \in Sessions, r \in RequestIds, t \in {"completion", "other"} :
         upload_attachment(s, r, t)

SpecStaffOps == Init /\ [][NextStaffOps]_vars

----------------------------------------------------------------------------
(* Steps of update_request_status, as seen from outside.                   *)

\* The call of s passes the test of line 83 and prepares a change.
StatusCallAccepted(s) == sess[s].pc = "idle" /\ sess'[s].pc = "pending"

\* The commit of line 107 succeeds.
StatusCommits(s) == sess[s].pc = "pending" /\ sess'[s].pc = "committed"

\* The commit of line 107 raises.
StatusCommitFails(s) == sess[s].pc = "pending" /\ sess'[s].pc = "idle"

\* Lines 110-115 run and the handler returns.
StatusPublishes(s) == sess[s].pc = "committed" /\ sess'[s].pc = "idle"

\* A call returns at line 84.
ReturnsAtLine84 == resp' # resp /\ resp' = "returned_84"

\* C12: a call of update_request_status whose status equals the request's
\* current status is never taken as a change, and the call that returns at
\* line 84 leaves the request (status, updated_at), the history, the audit
\* rows, the webhook deliveries, the task queue and the notifications as
\* they were.
C12_SameStatusIsNoOp ==
    [][/\ ReturnsAtLine84 =>
            UNCHANGED <<requests, history, auditLogs, deliveries, queue,
                        notifications, sess>>
       /\ \A s \in Sessions :
            StatusCallAccepted(s) =>
              sess'[s].payload.status # requests[sess'[s].request_id].status]_vars

\* A same-status call has returned on a request whose status was changed
\* before.
C12_Witness == resp = "returned_84" /\ Len(history) >= 1

\* The history row without its id.
WithoutId(row) ==
    [request_id |-> row.request_id, from_status |-> row.from_status,
     to_status |-> row.to_status, changed_by_id |-> row.changed_by_id,
     note |-> row.note]

\* C13: an accepted call builds a history row whose from_status is the
\* status the request had when the call loaded it, whose to_status and note
\* are the payload's and whose changed_by is the caller; its commit adds
\* exactly that one row to the history and sets the request's status to the
\* requested one.
C13_AcceptedChangeRecorded ==
    [][\A s \in Sessions :
         /\ StatusCallAccepted(s) =>
              LET h == sess'[s].history[1]
                  id == sess'[s].request_id
              IN /\ h.request_id = id
                 /\ h.from_status = Some(requests[id].status)
                 /\ h.to_status = sess'[s].payload.status
                 /\ h.note = sess'[s].payload.note
                 /\ h.changed_by_id = UserOf(s)
         /\ StatusCommits(s) =>
              /\ Len(history') = Len(history) + 1
              /\ SubSeq(history', 1, Len(history)) = history
              /\ WithoutId(history'[Len(history')]) = sess[s].history[1]
              /\ requests'[sess[s].request_id].status = sess[s].payload.status]_vars

\* The request went from in_progress to resolved with the note "fixed".
C13_Witness ==
    /\ requests["r1"].status = "resolved"
    /\ Len(history) >= 1
    /\ LET h == history[Len(history)]
       IN /\ h.from_status = Some("in_progress")
          /\ h.to_status = "resolved"
          /\ h.note = Some("fixed")

\* C14: of two overlapping calls that ask for the same new status only one
\* is accepted: no call commits a change to a status the request already
\* has (the request did not have it when the call loaded it, line 83, so an
\* overlapping call has committed the same change in between).
C14_OverlappingSameStatusAcceptedOnce ==
    [][\A s \in Sessions :
         StatusCommits(s) =>
           requests[sess[s].request_id].status # sess[s].payload.status]_vars

\* The audit rows written by update_request_status.
StatusChangedRows ==
    SelectSeq(auditLogs, LAMBDA a : a.action_type = "request.status_changed")

\* The committed tables agree: the i-th history row has its audit row with
\* the same from/to values and, with an Open311 endpoint configured, its
\* webhook delivery carrying the new status; without an endpoint there is
\* no delivery; the request has the to_status of its latest history row.
AllOrNothing ==
    /\ Len(StatusChangedRows) = Len(history)
    /\ \A i \in 1..Len(history) :
         /\ StatusChangedRows[i].request_id = history[i].request_id
         /\ StatusChangedRows[i].details =
              {<<"from", history[i].from_status>>, <<"to", history[i].to_status>>}
    /\ IF _target_url # NULL
         THEN /\ Len(deliveries) = Len(history)
              /\ \A i \in 1..Len(history) :
                   /\ deliveries[i].request_id = history[i].request_id
                   /\ deliveries[i].payload.status = history[i].to_status
                   /\ deliveries[i].payload.status_notes = history[i].note
         ELSE deliveries = <<>>
    /\ \A r \in RequestIds :
         LET hs == SelectSeq(history, LAMBDA h : h.request_id = r)
         IN hs # <<>> => requests[r].status = hs[Len(hs)].to_status

\* C15: after every step the history rows, the status_changed audit rows,
\* the webhook deliveries (when an endpoint is configured) and the request's
\* status agree one to one, and a commit that fails persists none of them.
C15_StatusChangeAllOrNothing ==
    [][/\ AllOrNothing'
       /\ \A s \in Sessions :
            StatusCommitFails(s) =>
              UNCHANGED <<requests, history, auditLogs, deliveries>>]_vars

\* With an endpoint configured one change is committed and a later commit
\* has failed.
C15_Witness ==
    /\ _target_url # NULL
    /\ Len(history) >= 1
    /\ Len(deliveries) >= 1
    /\ resp = "raised"

\* The change prepared by the call of s is in the committed history.
ChangeCommitted(s) ==
    \E i \in 1..Len(history) : WithoutId(history[i]) = sess[s].history[1]

\* C16: a delivery id enters the task queue, and a notification is sent,
\* only in the part of a call that follows its successful commit; the id
\* enqueued is that of the WebhookDelivery row committed for this change;
\* a call whose commit fails enqueues nothing, notifies nobody and ends.
C16_PublishOnlyAfterCommit ==
    [][/\ \A id \in queue' \ queue :
            \E s \in Sessions :
               /\ StatusPublishes(s)
               /\ ChangeCommitted(s)
               /\ sess[s].delivery # NULL
               /\ \E i \in 1..Len(deliveries) :
                    /\ deliveries[i].id = id
                    /\ deliveries[i] = sess[s].delivery[1]
       /\ notifications' # notifications =>
            \E s \in Sessions : StatusPublishes(s) /\ ChangeCommitted(s)
       /\ \A s \in Sessions :
            StatusCommitFails(s) =>
              /\ queue' = queue
              /\ notifications' = notifications
              /\ sess'[s] = NoSession]_vars

\* A task is queued and the subscriber was notified.
C16_Witness == queue # {} /\ Len(notifications) >= 1

\* C17: every history row has a to_status, and a row without from_status
\* is the lowest-id row of its request.
C17_HistoryStatusesSet ==
    \A i \in 1..Len(history) :
       /\ history[i].to_status \in RequestStatus
       /\ history[i].from_status = NULL =>
            \A j \in 1..Len(history) :
               history[j].request_id = history[i].request_id =>
                 history[j].id >= history[i].id

\* The request has a second history row.
C17_Witness == Len(history) >= 2

\* C18: no step of any staff operation changes or removes a history row;
\* the history grows by exactly one row in the steps that commit an
\* accepted status change and in no other step; the request is never
\* deleted.
C18_HistoryImmutable ==
    [][/\ IsPrefix(history, history')
       /\ Len(history') <= Len(history) + 1
       /\ Len(history') = Len(history) + 1 <=> \E s \in Sessions : StatusCommits(s)
       /\ DOMAIN requests' = DOMAIN requests]_vars

\* A history row exists and another staff operation has run.
C18_Witness == Len(history) >= 1 /\ OtherOps >= 1

----------------------------------------------------------------------------
(* The order of the statuses and the shape of the history.                 *)

\* The place of a status in the order new, in_progress, resolved, closed
\* (core/enums.py 13-16).
StatusOrder(status) ==
    CASE status = "new" -> 1
      [] status = "in_progress" -> 2
      [] status = "resolved" -> 3
      [] status = "closed" -> 4

\* C22: every transition update_request_status records goes from a status
\* to the next one in the order new, in_progress, resolved, closed: never
\* backwards and never over a status.
C22_LinearTransitionsOnly ==
    \A i \in 1..Len(history) :
       history[i].from_status # NULL =>
         StatusOrder(history[i].to_status) =
           StatusOrder(history[i].from_status[1]) + 1

\* The history rows of one request, by ascending id.
HistoryOf(r) == SelectSeq(history, LAMBDA h : h.request_id = r)

\* C27: with one update_request_status call at a time, the history rows of
\* a request, by ascending id, form a chain (each from_status is the
\* to_status of the row before), and a request with history has the
\* to_status of its latest row.
C27_HistoryIsContinuousChain ==
    \A r \in RequestIds :
       LET hs == HistoryOf(r)
       IN /\ \A i \in 2..Len(hs) :
               /\ hs[i - 1].id < hs[i].id
               /\ hs[i].from_status = Some(hs[i - 1].to_status)
          /\ hs # <<>> => requests[r].status = hs[Len(hs)].to_status

\* Two changes were committed one after the other, the second one taking
\* the request back to the status it started with.
C27_Witness ==
    /\ Len(HistoryOf("r1")) >= 2
    /\ HistoryOf("r1")[2].from_status = Some(HistoryOf("r1")[1].to_status)
    /\ requests["r1"].status = "new"
    /\ \A s \in Sessions : sess[s].pc = "idle"

\* C28: no history row has from_status equal to to_status, whatever the
\* interleaving of the calls.
C28_NoSelfTransition ==
    \A i \in 1..Len(history) :
       history[i].from_status # Some(history[i].to_status)

\* Two overlapping calls have both committed the same change.
C28_Witness ==
    /\ Len(history) >= 2
    /\ history[1].from_status = history[2].from_status
    /\ history[1].to_status = history[2].to_status
    /\ history[1].changed_by_id # history[2].changed_by_id

----------------------------------------------------------------------------
(* Webhook delivery (services/open311.py 69-93, workers/tasks.py 33-50).   *)
(* Status changes come one at a time; each committed change with an        *)
(* endpoint configured leaves one WebhookDelivery and one queued task.     *)

\* The ids a task message may carry: those the table can hold and one more.
DeliveryIds == 1..(MaxChanges + 1)

\* A task message that is not in the queue any more runs: the broker hands
\* a message out again after the row was attempted, or the message names an
\* id without a row.
deliver_webhook_again(delivery_id, response) ==
    /\ delivery_id \notin queue
    /\ \A i \in 1..Len(deliveries) :
          deliveries[i].id = delivery_id =>
            deliveries[i].attempts \in 1..(MaxAttempts - 1)
    /\ _deliver_webhook(delivery_id, response)
    /\ UNCHANGED <<settings, requests, history, auditLogs, notes, attachments,
                   queue, notifications, sess>>
    /\ UNCHANGED <<auditVars, retentionVars, authVars>>

NextWebhook ==
    \/ \E r \in RequestIds, payload \in Payloads :
         update_request_status_sequential(r, payload[1], payload[2])
    \/ \E s \in Sessions : update_request_status_commit(s)
    \/ \E s \in Sessions : update_request_status_commit_fails(s)
    \/ \E s \in Sessions : update_request_status_publish(s)
    \/ \E d \in queue, response \in StatusCodes : deliver_webhook_task(d, response)
    \/ \E d \in DeliveryIds, response \in StatusCodes :
         deliver_webhook_again(d, response)

\* The endpoint is the one of the environment, or there is none.
InitWebhook ==
    /\ AuditInit
    /\ \E cfg \in SettingsValues :
          /\ cfg.config_endpoint_url = NULL
          /\ StaffInit(cfg)
    /\ RetentionInit([id \in RecordIds |-> ClosedRecord])
    /\ AuthInit

SpecWebhook == InitWebhook /\ [][NextWebhook]_vars

\* The task found no row for its id (tasks.py 45-47).
TaskFindsNoRow == resp' # resp /\ resp' = "delivery_not_found"

\* The outcome recorded on a delivery row is that of a response below 400.
RespondedBelow400(delivery) ==
    /\ delivery.response_body # NULL
    /\ delivery.response_body[1][1] = "text"
    /\ delivery.response_body[1][2] < 400

\* C29: a WebhookDelivery is inserted PENDING with attempts = 0; a task run
\* on a row adds exactly 1 to attempts and leaves SUCCESS when the response
\* status was below 400 and FAILED otherwise (a transport error included);
\* a task taken from the queue runs on its row; a row is PENDING exactly
\* when attempts = 0; a task whose id has no row changes nothing.
C29_WebhookAccounting ==
    [][/\ \A i \in (Len(deliveries) + 1)..Len(deliveries') :
            deliveries'[i].status = "pending" /\ deliveries'[i].attempts = 0
       /\ \A i \in 1..Len(deliveries) :
            deliveries'[i] # deliveries[i] =>
              /\ deliveries'[i].attempts = deliveries[i].attempts + 1
              /\ deliveries'[i].status =
                   IF RespondedBelow400(deliveries'[i]) THEN "success" ELSE "failed"
       /\ \A id \in queue \ queue' :
            \E i \in 1..Len(deliveries) :
               /\ deliveries[i].id = id
               /\ deliveries'[i].attempts = deliveries[i].attempts + 1
       /\ \A i \in 1..Len(deliveries') :
            deliveries'[i].status = "pending" <=> deliveries'[i].attempts = 0
       /\ TaskFindsNoRow =>
            UNCHANGED <<requests, history, auditLogs, deliveries, queue,
                        notifications, sess>>]_vars

\* A delivery succeeded on its last allowed run after an earlier run had
\* not, another one is still pending, and a task has found no row.
C29_Witness ==
    /\ resp = "delivery_not_found"
    /\ \E i, j \in 1..Len(deliveries) :
          /\ deliveries[i].attempts = MaxAttempts
          /\ deliveries[i].status = "success"
          /\ deliveries[j].status = "pending"

----------------------------------------------------------------------------
(* Retention service (backend/app/services/retention_service.py).          *)

\* retention_service.py 29-135: the policies of Georgia (shortest), Texas
\* (longest) and the default.
STATE_RETENTION_POLICIES ==
    [GA |-> [days |-> 3 * 365, name |-> "Georgia"],
     TX |-> [days |-> 10 * 365, name |-> "Texas"],
     DEFAULT |-> [days |-> 7 * 365, name |-> "Default"]]

\* The state codes passed: a listed one, one in lower case, an unlisted one
\* and the empty string.
StateCodes == {"GA", "tx", "ZZ", ""}

\* str.upper on these codes
Upper(code) == IF code = "tx" THEN "TX" ELSE code

\* override_days: Optional[int]
OverrideDays == {NULL, Some(0), Some(1), Some(2000)}

\* closed_date arguments and datetime.utcnow() readings, in days
ClosedDates == {0, 10}
NowValues == {2, 1096, 2001, 3651}

\* retention_service.py 154-174
get_retention_policy(state_code) ==
    LET code == IF state_code # "" THEN Upper(state_code) ELSE "DEFAULT"
        policy == IF code \in DOMAIN STATE_RETENTION_POLICIES
                    THEN STATE_RETENTION_POLICIES[code]
                    ELSE STATE_RETENTION_POLICIES["DEFAULT"]
    IN [state_code |-> code, name |-> policy.name,
        retention_days |-> policy.days,
        retention_years |-> policy.days \div 365]

\* retention_service.py 177-200
calculate_retention_date(closed_date, state_code, override_days) ==
    LET policy == get_retention_policy(state_code)
        retention_days ==
            IF Truthy(override_days) /\ override_days[1] > policy.retention_days
              THEN override_days[1]
              ELSE policy.retention_days
    IN closed_date + retention_days

\* retention_service.py 223-225
cutoff_date(state_code, override_days, now) ==
    LET policy == get_retention_policy(state_code)
        retention_days == IF Truthy(override_days) THEN override_days[1]
                          ELSE policy.retention_days
    IN now - retention_days

\* retention_service.py 229-238: the WHERE clause
EligibleForArchival(row, cutoff) ==
    /\ row.status = "closed"
    /\ row.closed_datetime # NULL
    /\ row.closed_datetime[1] < cutoff
    /\ row.archived_at = NULL
    /\ row.deleted_at = NULL
    /\ row.flagged = FALSE

\* retention_service.py 290-297
Anonymize(row, id, now) ==
    [row EXCEPT !.first_name = "[ARCHIVED]",
                !.email = "archived-" \o ToString(id) \o "@retention.local",
                !.description = "[Content archived per retention policy]",
                !.archived_at = Some(now)]

\* calculate_retention_date called with the given arguments.
calculate_retention_date_call(closed_date, state_code, override_days) ==
    /\ rcall' = [fn |-> "calculate_retention_date", closed_date |-> closed_date,
                 state_code |-> state_code, override_days |-> override_days,
                 retention_date |-> calculate_retention_date(closed_date,
                                       state_code, override_days)]
    /\ UNCHANGED <<records, arch>>
    /\ UNCHANGED <<auditVars, staffVars, authVars>>

\* retention_service.py 203-242; every table here is shorter than `limit`.
get_records_for_archival(state_code, override_days, now) ==
    /\ rcall' = [fn |-> "get_records_for_archival", state_code |-> state_code,
                 override_days |-> override_days, now |-> now,
                 result |-> {id \in DOMAIN records :
                               EligibleForArchival(records[id],
                                   cutoff_date(state_code, override_days, now))}]
    /\ UNCHANGED <<records, arch>>
    /\ UNCHANGED <<auditVars, staffVars, authVars>>

ArchiveResult(record_id, archive_mode, status) ==
    [fn |-> "archive_record", record_id |-> record_id,
     archive_mode |-> archive_mode, status |-> status]

\* retention_service.py 263-277: load the record; return "error" when it
\* does not exist and "skipped" when it is flagged.
archive_record_load(record_id, archive_mode) ==
    /\ arch.pc = "idle"
    /\ IF record_id \notin DOMAIN records
         THEN /\ rcall' = ArchiveResult(record_id, archive_mode, "error")
              /\ UNCHANGED arch
         ELSE IF records[record_id].flagged
                THEN /\ rcall' = ArchiveResult(record_id, archive_mode, "skipped")
                     /\ UNCHANGED arch
                ELSE /\ arch' = [pc |-> "loaded", record_id |-> record_id,
                                 archive_mode |-> archive_mode]
                     /\ UNCHANGED rcall
    /\ UNCHANGED records
    /\ UNCHANGED <<auditVars, staffVars, authVars>>

\* retention_service.py 279-306: delete the loaded record, or overwrite its
\* personal data and set archived_at, and commit.
archive_record_commit(now) ==
    /\ arch.pc = "loaded"
    /\ LET id == arch.record_id
       IN IF arch.archive_mode = "delete"
            THEN /\ records' = [r \in DOMAIN records \ {id} |-> records[r]]
                 /\ rcall' = ArchiveResult(id, arch.archive_mode, "deleted")
            ELSE /\ records' = [records EXCEPT ![id] = Anonymize(@, id, now)]
                 /\ rcall' = ArchiveResult(id, arch.archive_mode, "anonymized")
    /\ arch' = NoArchive
    /\ UNCHANGED <<auditVars, staffVars, authVars>>

\* A legal hold is placed on a record or lifted (the column `flagged` is
\* written outside this service).
set_flagged(record_id, flagged) ==
    /\ record_id \in DOMAIN records
    /\ records[record_id].flagged # flagged
    /\ records' = [records EXCEPT ![record_id].flagged = flagged]
    /\ UNCHANGED <<arch, rcall>>
    /\ UNCHANGED <<auditVars, staffVars, authVars>>

InitRetention ==
    /\ AuditInit
    /\ StaffInit(NoEndpoint)
    /\ \E rows \in [RecordIds -> {ClosedRecord, OpenRecord}] : RetentionInit(rows)
    /\ AuthInit

NextRetention ==
    \/ \E d \in ClosedDates, c \in StateCodes, o \in OverrideDays :
         calculate_retention_date_call(d, c, o)
    \/ \E c \in StateCodes, o \in OverrideDays, now \in NowValues :
         get_records_for_archival(c, o, now)
    \/ \E id \in 1..(NumRecords + 1), mode \in {"anonymize", "delete"} :
         archive_record_load(id, mode)
    \/ \E now \in NowValues : archive_record_commit(now)
    \/ \E id \in RecordIds, f \in BOOLEAN : set_flagged(id, f)

SpecRetention == InitRetention /\ [][NextRetention]_vars

\* The step in which archive_record deletes or anonymizes and returns.
ArchiveCommits == arch.pc = "loaded" /\ arch'.pc = "idle"

\* A call of fn returns in this step.
RetentionCallReturns(fn) ==
    /\ rcall'.fn = fn
    /\ rcall.fn = fn => rcall' # rcall

\* C19: a record that is flagged when archive_record deletes or anonymizes
\* is left alone; a call that finds the record flagged returns "skipped"
\* and changes nothing; get_records_for_archival returns no flagged record.
C19_LegalHoldRespected ==
    [][/\ ArchiveCommits => ~records[arch.record_id].flagged
       /\ ( /\ RetentionCallReturns("archive_record")
            /\ arch.pc = "idle"
            /\ rcall'.record_id \in DOMAIN records
            /\ records[rcall'.record_id].flagged )
            => rcall'.status = "skipped" /\ records' = records
       /\ RetentionCallReturns("get_records_for_archival") =>
            \A id \in rcall'.result : ~records[id].flagged]_vars

\* The state minimum, in days.
StateMinimumDays(state_code) == get_retention_policy(state_code).retention_days

Max(a, b) == IF a >= b THEN a ELSE b

\* calculate_retention_date returns closed_date + max(state minimum,
\* override_days), no override counting as none.
CalculatedDateIsMax ==
    RetentionCallReturns("calculate_retention_date") =>
      rcall'.retention_date =
        rcall'.closed_date +
          Max(StateMinimumDays(rcall'.state_code),
              IF rcall'.override_days = NULL THEN 0 ELSE rcall'.override_days[1])

\* get_records_for_archival returns closed records only, and only ones
\* closed at least the state minimum number of days ago.
ArchivalAfterStateMinimum ==
    RetentionCallReturns("get_records_for_archival") =>
      \A id \in rcall'.result :
         /\ records[id].status = "closed"
         /\ rcall'.now - records[id].closed_datetime[1] >=
              StateMinimumDays(rcall'.state_code)

\* C20: the state retention period is a minimum that override_days can
\* extend but not shorten, both in calculate_retention_date and in
\* get_records_for_archival.
C20_RetentionIsMinimum ==
    [][CalculatedDateIsMax /\ ArchivalAfterStateMinimum]_vars

----------------------------------------------------------------------------
(* Chain linkage: stored hash against recomputed hash.                     *)

\* A verifier like verify_integrity (lines 214-238) except that the linkage
\* of an entry is compared with the hash recomputed from the preceding
\* entry's content instead of the preceding entry's stored entry_hash.
RECURSIVE VerifyLoopRecomputed(_, _, _)
VerifyLoopRecomputed(logs, i, previous_hash) ==
    IF i > Len(logs) THEN TRUE
    ELSE IF HashMismatch(logs[i]) THEN FALSE
    ELSE IF LinkBroken(previous_hash, logs[i]) THEN FALSE
    ELSE VerifyLoopRecomputed(logs, i + 1, ComputedHash(logs[i]))

\* C21: verify_integrity, which carries the stored entry_hash of an entry to
\* the linkage check of the next one, returns on every log (written by
\* log_event, then changed in storage or not) the result of the verifier
\* that carries the recomputed hash.
C21_StoredLinkageEqualsRecomputed ==
    [][VerifyReturns => vresult' = Some(VerifyLoopRecomputed(vlogs, 1, NULL))]_vars

\* The walk reads a log in which an entry's content no longer has the stored
\* hash while the next entry still points at that stored hash: linkage
\* against the stored hash alone would pass there, against the recomputed
\* hash it would not.
C21_Witness ==
    /\ vpc = "walking"
    /\ tamper.kind = "field"
    /\ \E i \in 1..(Len(vlogs) - 1) :
          /\ \A j \in 1..(i - 1) : ~HashMismatch(vlogs[j])
          /\ HashMismatch(vlogs[i])
          /\ vlogs[i + 1].previous_hash = vlogs[i].entry_hash
          /\ vlogs[i + 1].previous_hash # ComputedHash(vlogs[i])
    /\ ~VerifyLoop(vlogs, 1, NULL)

----------------------------------------------------------------------------
(* Login flow (backend/app/api/auth.py 17-115).  The handlers are          *)
(* coroutines of one event loop: the code between two awaits runs without  *)
(* interruption.                                                           *)

\* secrets.token_urlsafe(32), taken as never repeating: the n-th token.
token_urlsafe(n) == "state-" \o ToString(n)

\* The redirect_uri query values sent: a URL, and the empty string.
RedirectUris == {"https://portal.example/login/done", ""}

\* _pending_states[state] = redirect_uri (line 43)
Store(d, state, redirect_uri) ==
    [k \in DOMAIN d \cup {state} |-> IF k = state THEN redirect_uri ELSE d[k]]

\* The value of _pending_states.pop(state, None) (line 70)
Popped(d, state) == IF state \in DOMAIN d THEN Some(d[state]) ELSE NULL

MutantGetKeepsState(d, state) == d

\* _pending_states after .pop(state, None) (line 70)
AfterPop(d, state) == [k \in DOMAIN d \ {state} |-> d[k]]

\* How get_auth0_status and get_auth0_login_url answer (lines 34-35, 48-50).
LoginOutcomes == {"not_configured", "no_auth_url", "ok"}

\* auth.py 34-52: 503 when Auth0 is not configured; else a new state token
\* is stored with the redirect_uri, and returned unless no login URL could
\* be built.
initiate_login(redirect_uri, outcome) ==
    /\ nextState <= MaxLogins
    /\ IF outcome = "not_configured"
         THEN /\ aresp' = "503_not_configured"
              /\ UNCHANGED <<_pending_states, nextState>>
         ELSE LET state == token_urlsafe(nextState)
              IN /\ _pending_states' = Store(_pending_states, state, redirect_uri)
                 /\ nextState' = nextState + 1
                 /\ aresp' = IF outcome = "no_auth_url"
                               THEN "503_no_auth_url" ELSE "200_auth_url"
    /\ UNCHANGED <<cb, alog, jwts>>
    /\ UNCHANGED <<auditVars, staffVars, retentionVars>>

\* auth.py 70-72: pop the state; 400 when nothing (or an empty
\* redirect_uri) was stored under it, else go on to the code exchange.
auth0_callback_verify(c, state) ==
    /\ cb[c].pc = "idle"
    /\ Len(alog) < MaxCallbacks
    /\ LET redirect_uri == Popped(_pending_states, state)
       IN /\ _pending_states' = AfterPop(_pending_states, state)
          /\ IF redirect_uri = NULL \/ redirect_uri[1] = ""
               THEN /\ alog' = Append(alog, [state |-> state,
                                             outcome |-> "invalid_state"])
                    /\ aresp' = "400_invalid_state"
                    /\ UNCHANGED cb
               ELSE /\ alog' = Append(alog, [state |-> state,
                                             outcome |-> "accepted"])
                    /\ cb' = [cb EXCEPT ![c] =
                                [pc |-> "exchanging", state |-> state,
                                 redirect_uri |-> redirect_uri[1]]]
                    /\ UNCHANGED aresp
    /\ UNCHANGED <<nextState, jwts>>
    /\ UNCHANGED <<auditVars, staffVars, retentionVars>>

\* What the code exchange and the user lookup give (lines 78-106).
ExchangeResults ==
    {"no_user_info", "no_email", "account_not_found", "disabled", "ok"}

\* auth.py 78-115: exchange the code, find the user, and for an active user
\* create the access token and redirect to redirect_uri with it.
auth0_callback_finish(c, result) ==
    /\ cb[c].pc = "exchanging"
    /\ jwts' = IF result = "ok"
                 THEN Append(jwts, [state |-> cb[c].state,
                                    redirect_uri |-> cb[c].redirect_uri])
                 ELSE jwts
    /\ aresp' = CASE result = "no_user_info" -> "401_authentication_failed"
                  [] result = "no_email" -> "400_no_email"
                  [] result = "account_not_found" -> "403_account_not_found"
                  [] result = "disabled" -> "403_disabled"
                  [] result = "ok" -> "302_token"
    /\ cb' = [cb EXCEPT ![c] = NoCallback]
    /\ UNCHANGED <<_pending_states, nextState, alog>>
    /\ UNCHANGED <<auditVars, staffVars, retentionVars>>

\* The state values a callback request may carry: every token that is ever
\* stored, and one that never is.
CallbackStates == {token_urlsafe(n) : n \in 1..(MaxLogins + 1)}

NextAuth ==
    \/ \E uri \in RedirectUris, outcome \in LoginOutcomes :
         initiate_login(uri, outcome)
    \/ \E c \in Callers, state \in CallbackStates : auth0_callback_verify(c, state)
    \/ \E c \in Callers, result \in ExchangeResults : auth0_callback_finish(c, result)

SpecAuth == Init /\ [][NextAuth]_vars

\* The state tokens initiate_login has stored so far.
IssuedStates == {token_urlsafe(n) : n \in 1..(nextState - 1)}

\* The calls of auth0_callback so far that passed line 71 with this state.
AcceptedCalls(state) ==
    {i \in 1..Len(alog) : alog[i].state = state /\ alog[i].outcome = "accepted"}

\* A call of auth0_callback runs lines 70-72 in this step.
CallbackVerifies == Len(alog') = Len(alog) + 1

\* C23: a state token stored by initiate_login passes line 71 of
\* auth0_callback at most once, and is out of the pending set from then on;
\* a callback whose state was never stored, or was accepted before, gets
\* the invalid-state error, changes nothing and leads to no access token;
\* every access token belongs to one accepted callback of its own.
C23_StateAcceptedAtMostOnce ==
    [][/\ CallbackVerifies =>
            LET e == alog'[Len(alog')]
            IN /\ e.outcome = "accepted" =>
                    /\ e.state \in IssuedStates
                    /\ AcceptedCalls(e.state) = {}
                    /\ e.state \notin DOMAIN _pending_states'
               /\ (e.state \notin IssuedStates \/ AcceptedCalls(e.state) # {}) =>
                    /\ e.outcome = "invalid_state"
                    /\ aresp' = "400_invalid_state"
                    /\ UNCHANGED <<_pending_states, cb, jwts>>
       /\ \A state \in CallbackStates :
            /\ Cardinality(AcceptedCalls(state)') <= 1
            /\ Cardinality({i \in 1..Len(jwts') : jwts'[i].state = state})
                 <= Cardinality(AcceptedCalls(state)')]_vars

\* A state was accepted and led to an access token, and a later callback
\* with the same state was rejected, as was one with a state never stored.
C23_Witness ==
    /\ Len(jwts) = 1
    /\ \E i, j, k \in 1..Len(alog) :
          /\ i < j
          /\ alog[i].outcome = "accepted"
          /\ alog[j].state = alog[i].state
          /\ alog[j].outcome = "invalid_state"
          /\ alog[k].state = token_urlsafe(MaxLogins + 1)
          /\ alog[k].outcome = "invalid_state"

----------------------------------------------------------------------------
(* Forks: overlapping log_event calls that read the same last entry.       *)
(* One more entry than elsewhere is written and only the whole log is      *)
(* verified; the calls all read the same clock value, so that every stored *)
(* entry_hash matches its row and only the linkage decides.                *)

log_event_fork(p, ev) ==
    /\ LowestIdle(p)
    /\ tamper.kind = "none"
    /\ Len(log) + Cardinality(InFlight) < MaxEntries + 1
    /\ log_event_hash(p, ev)

NextFork ==
    \/ \E p \in Workers, ev \in Events : log_event_fork(p, ev)
    \/ \E p \in Workers : log_event_commit(p)
    \/ verify_integrity_quiesced(NULL)
    \/ verify_integrity_walk

SpecFork == Init /\ [][NextFork]_vars

\* The entries at positions i < j were written by two calls that read the
\* last-entry hash h while the same entry was the last one: they overlapped.
ForkedPair(rows, i, j, h) ==
    /\ i < j
    /\ readAt[rows[i].id] = readAt[rows[j].id]
    /\ rows[i].previous_hash = h
    /\ rows[j].previous_hash = h

\* C24 as stated: once two overlapping calls that read the same last-entry
\* hash h have both committed, verify_integrity over the whole log returns
\* False, unless the entry_hash of the first of the two entries equals h.
C24_ForkDetectedUnlessFirstEqualsH ==
    [][(VerifyReturns /\ WholeLog) =>
         \A i, j \in 1..Len(vlogs) :
            (/\ ForkedPair(vlogs, i, j, vlogs[j].previous_hash)
             /\ vlogs[i].entry_hash # vlogs[j].previous_hash)
            => vresult' = Some(FALSE)]_vars

\* C24, amended: ... verify_integrity over the whole log returns False,
\* unless the entry stored just before the second of the two entries has an
\* entry_hash equal to h (the first of the two when they are adjacent, or a
\* later entry whose hashed content repeats that of the entry both calls
\* read).
C24_ForkDetectedUnlessPredecessorEqualsH ==
    [][(VerifyReturns /\ WholeLog) =>
         \A i, j \in 1..Len(vlogs) :
            (/\ ForkedPair(vlogs, i, j, vlogs[j].previous_hash)
             /\ vlogs[j - 1].entry_hash # vlogs[j].previous_hash)
            => vresult' = Some(FALSE)]_vars

\* The walk reads a log that holds a fork whose second entry does not link
\* to the entry before it, and fails.
C24_Witness ==
    /\ vpc = "walking" /\ WholeLog
    /\ \E i, j \in 1..Len(vlogs) :
          /\ ForkedPair(vlogs, i, j, vlogs[j].previous_hash)
          /\ vlogs[j].previous_hash # NULL
          /\ vlogs[j - 1].entry_hash # vlogs[j].previous_hash
    /\ ~VerifyLoop(vlogs, 1, NULL)

----------------------------------------------------------------------------
(* Truncation, and writes to columns outside the hashed content.           *)

\* The newest entry, or the newest entries, were deleted.
SuffixDeleted ==
    \/ tamper.kind = "truncate"
    \/ /\ tamper.kind = "delete"
       /\ \A i \in 1..Len(log) : log[i].id < tamper.id

\* The oldest entry of a chain of at least two was deleted.
OldestDeleted ==
    /\ tamper.kind = "delete"
    /\ log # <<>>
    /\ \A i \in 1..Len(log) : tamper.id < log[i].id

\* C25: after the newest entry or entries of a chain that verified were
\* deleted, verify_integrity over the whole log returns True; after the
\* oldest entry of a chain of at least two was deleted it returns False,
\* the first entry it reads having a previous_hash that is not None.
C25_TruncationAtTheEnds ==
    [][(VerifyReturns /\ WholeLog) =>
         /\ (SuffixDeleted /\ VerifyLoop(BeforeTamper, 1, NULL))
              => vresult' = Some(TRUE)
         /\ OldestDeleted =>
              /\ vlogs[1].previous_hash # NULL
              /\ vresult' = Some(FALSE)]_vars

\* The walk reads what is left of a chain of MaxEntries entries that
\* verified and then lost its two newest entries.
C25_Witness ==
    /\ vpc = "walking" /\ WholeLog
    /\ tamper.kind = "truncate"
    /\ Len(BeforeTamper) = MaxEntries
    /\ Len(vlogs) = MaxEntries - 2
    /\ VerifyLoop(BeforeTamper, 1, NULL)

\* The direct write changed failure_reason or user_agent, or changed
\* details from None to the empty dict or back.
UnhashedChange ==
    /\ tamper.kind = "field"
    /\ \/ tamper.field \in UnhashedFields
       \/ /\ tamper.field = "details"
          /\ tamper.old.details \in {NULL, Some(EmptyDict)}
          /\ log[PosOf(tamper.id)].details \in {NULL, Some(EmptyDict)}

\* C26: after a direct change of an entry's failure_reason or user_agent,
\* or of its details between None and the empty dict, verify_integrity
\* returns, for every start_id, what it returns on the log as it was before
\* the change.
C26_UnhashedChangeKeepsResult ==
    [][(VerifyReturns /\ UnhashedChange) =>
         vresult' = Some(VerifyLoop(SelectLogs(BeforeTamper, vstart), 1, NULL))]_vars

\* The walk reads a chain of MaxEntries entries that verifies, after the
\* details of one entry were changed from None to the empty dict.
C26_Witness ==
    /\ vpc = "walking" /\ WholeLog
    /\ UnhashedChange
    /\ tamper.old.details = NULL
    /\ log[PosOf(tamper.id)].details = Some(EmptyDict)
    /\ Len(vlogs) = MaxEntries
    /\ VerifyLoop(vlogs, 1, NULL)
====
